---- MODULE Spec2Model ----
(***************************************************************************)
(* A model of the PrimeVue documentation server (src/src/server.mjs): the  *)
(* fail-soft recursive load of the JSON corpus into the docs Map, and the  *)
(* request handlers served once the transport is connected: the resource   *)
(* template primevue://{docPath} and the tools search_primevue_docs,       *)
(* get_component_api and list_categories.                                  *)
(*                                                                         *)
(* A JavaScript string is a sequence of one-character strings; a parsed    *)
(* JSON object is a record that has exactly the fields the file has, so a  *)
(* read of a field the file lacks is a read of undefined.                  *)
(***************************************************************************)
EXTENDS Integers, Sequences, FiniteSets, TLC

(***************************************************************************)
(* Bounds of the model.                                                    *)
(***************************************************************************)
\* number of file entries of the corpus tree
NumFiles == 3

(***************************************************************************)
(* Strings.                                                                *)
(***************************************************************************)
UpperChars == <<"A", "B", "C", "D", "E", "F", "G", "H", "I", "J", "K", "L", "M",
                "N", "O", "P", "Q", "R", "S", "T", "U", "V", "W", "X", "Y", "Z">>
LowerChars == <<"a", "b", "c", "d", "e", "f", "g", "h", "i", "j", "k", "l", "m",
                "n", "o", "p", "q", "r", "s", "t", "u", "v", "w", "x", "y", "z">>
DigitChars == <<"0", "1", "2", "3", "4", "5", "6", "7", "8", "9">>

\* the position of a character in a sequence of characters, 0 when absent
PosIn(c, chars) ==
  IF \E i \in 1..Len(chars) : chars[i] = c
  THEN CHOOSE i \in 1..Len(chars) : chars[i] = c
  ELSE 0

\* the UTF-16 code units of the characters in use, in increasing order
CodeUnitOrder == <<"\n", " ", "#", ",", ".", "/">> \o DigitChars \o <<":">>
                 \o UpperChars \o <<"_">> \o LowerChars
Chars == {CodeUnitOrder[i] : i \in 1..Len(CodeUnitOrder)}

\* String.prototype.toLowerCase, one character
LowerTable ==
  [c \in Chars |-> IF PosIn(c, UpperChars) > 0 THEN LowerChars[PosIn(c, UpperChars)] ELSE c]
LowerChar(c) == LowerTable[c]

\* String.prototype.toLowerCase
ToLowerCase(s) == [i \in 1..Len(s) |-> LowerChar(s[i])]

\* String.prototype.indexOf: the 0-based index of the first occurrence, or -1
IndexOf(s, t) ==
  LET hits == {i \in 0..(Len(s) - Len(t)) : SubSeq(s, i + 1, i + Len(t)) = t}
  IN  IF hits = {} THEN -1 ELSE CHOOSE i \in hits : \A j \in hits : i <= j

\* String.prototype.includes
Includes(s, t) == IndexOf(s, t) > -1

\* String.prototype.endsWith
EndsWith(s, t) == Len(t) <= Len(s) /\ SubSeq(s, Len(s) - Len(t) + 1, Len(s)) = t

\* String.prototype.substring(start)
Substring(s, start) == SubSeq(s, start + 1, Len(s))

\* String.prototype.replace(pattern, replacement) with a string pattern: only
\* the first occurrence is replaced, wherever it is
Replace(s, pat, rep) ==
  LET i == IndexOf(s, pat)
  IN  IF i = -1 THEN s
      ELSE SubSeq(s, 1, i) \o rep \o SubSeq(s, i + Len(pat) + 1, Len(s))

\* String.prototype.split(sep) with a one-character separator
RECURSIVE Split(_, _)
Split(s, sep) ==
  LET i == IndexOf(s, <<sep>>)
  IN  IF i = -1 THEN <<s>>
      ELSE <<SubSeq(s, 1, i)>> \o Split(SubSeq(s, i + 2, Len(s)), sep)

\* Array.prototype.join over strings
RECURSIVE Join(_, _)
Join(parts, sep) ==
  IF Len(parts) = 0 THEN <<>>
  ELSE IF Len(parts) = 1 THEN parts[1]
  ELSE parts[1] \o sep \o Join(Tail(parts), sep)

\* Array.prototype.filter: kept is the set of the indexes of s at which the
\* predicate holds
Filter(s, kept) ==
  LET nth(k) == CHOOSE i \in kept : Cardinality({j \in kept : j < i}) = k - 1
  IN  [k \in 1..Cardinality(kept) |-> s[nth(k)]]

\* Array.prototype.slice(0, n)
Slice0(s, n) == SubSeq(s, 1, IF Len(s) < n THEN Len(s) ELSE n)

CodeUnitTable == [c \in Chars |-> PosIn(c, CodeUnitOrder)]
CodeUnit(c) == CodeUnitTable[c]

\* the comparison by code units that Array.prototype.sort() makes without a
\* comparator: negative, zero or positive
CodeUnitCompare(a, b) ==
  LET n == IF Len(a) < Len(b) THEN Len(a) ELSE Len(b)
      diff == {i \in 1..n : a[i] # b[i]}
      d == CHOOSE i \in diff : \A j \in diff : i <= j
  IN  IF diff = {} THEN Len(a) - Len(b) ELSE CodeUnit(a[d]) - CodeUnit(b[d])

\* String.prototype.localeCompare in the default (root / en) collation, for
\* the characters in use. First level: punctuation before digits before
\* letters, letters without regard to case. Last level: a lower-case letter
\* before its upper-case letter.
PunctChars == <<"\n", " ", "_", ",", ":", ".", "/", "#">>
PrimaryTable ==
  [c \in Chars |-> IF PosIn(c, PunctChars) > 0 THEN PosIn(c, PunctChars)
                   ELSE IF PosIn(c, DigitChars) > 0 THEN 10 + PosIn(c, DigitChars)
                   ELSE 20 + PosIn(LowerChar(c), LowerChars)]
CaseTable == [c \in Chars |-> IF PosIn(c, UpperChars) > 0 THEN 1 ELSE 0]

\* the comparison of two strings at one level, W the table of its weights
WeightCompare(a, b, W) ==
  LET n == IF Len(a) < Len(b) THEN Len(a) ELSE Len(b)
      diff == {i \in 1..n : W[a[i]] # W[b[i]]}
      d == CHOOSE i \in diff : \A j \in diff : i <= j
  IN  IF diff = {} THEN Len(a) - Len(b) ELSE W[a[d]] - W[b[d]]

LocaleCompare(a, b) ==
  IF WeightCompare(a, b, PrimaryTable) # 0 THEN WeightCompare(a, b, PrimaryTable)
  ELSE WeightCompare(a, b, CaseTable)

\* Array.prototype.sort(compare), cmp[j, i] being compare(s[j], s[i]): the
\* sort is stable, so the element at index i goes behind the elements that
\* compare below it and the elements that compare equal to it and stand
\* before it
StableSort(s, cmp) ==
  LET pos(i) == 1 + Cardinality({j \in 1..Len(s) :
                     \/ cmp[j, i] < 0
                     \/ cmp[j, i] = 0 /\ j < i})
  IN  [k \in 1..Len(s) |-> s[CHOOSE i \in 1..Len(s) : pos(i) = k]]

(***************************************************************************)
(* Program constants.                                                      *)
(***************************************************************************)
\* '/primevue/': the prefix of a document id in the resource handler and in
\* the locator of a search result
Namespace == <<"/", "p", "r", "i", "m", "e", "v", "u", "e", "/">>
\* '/primevue/components/': the id prefix of get_component_api's second step
ComponentsPrefix == <<"/", "p", "r", "i", "m", "e", "v", "u", "e", "/", "c", "o", "m", "p", "o", "n", "e", "n", "t", "s", "/">>
\* 'primevue://': the scheme of a resource locator
UriScheme == <<"p", "r", "i", "m", "e", "v", "u", "e", ":", "/", "/">>
\* '### API': the section marker of get_component_api
ApiMarker == <<"#", "#", "#", " ", "A", "P", "I">>
\* 'Unknown': the category of a document whose first path segment is empty
UnknownCategory == <<"U", "n", "k", "n", "o", "w", "n">>
\* ' documentation': the end of the snippet placeholder
DocumentationSuffix == <<" ", "d", "o", "c", "u", "m", "e", "n", "t", "a", "t", "i", "o", "n">>
\* the fixed parts of the text of an API reference
ApiHeading == <<"#", " ">>
ApiReferenceLine == <<" ", "A", "P", "I", " ", "R", "e", "f", "e", "r", "e", "n", "c", "e", "\n", "C", "a", "t", "e", "g", "o", "r", "y", ":", " ">>
ApiTagsLine == <<"\n", "T", "a", "g", "s", ":", " ">>
\* '.json': the extension of the files that are loaded
JsonExt == <<".", "j", "s", "o", "n">>
\* 'text/markdown': the mime type the resource handler answers with
MarkdownMime == <<"t", "e", "x", "t", "/", "m", "a", "r", "k", "d", "o", "w", "n">>
\* the corpus root, process.argv[2] || './mcp'
DocsPath == <<".", "/", "m", "c", "p">>
\* the number of lines a snippet keeps
SnippetLines == 3
\* the names a plain object inherits from Object.prototype
ObjectPrototypeKeys == {<<"c", "o", "n", "s", "t", "r", "u", "c", "t", "o", "r">>,
                        <<"t", "o", "S", "t", "r", "i", "n", "g">>,
                        <<"v", "a", "l", "u", "e", "O", "f">>,
                        <<"h", "a", "s", "O", "w", "n", "P", "r", "o", "p", "e", "r", "t", "y">>,
                        <<"i", "s", "P", "r", "o", "t", "o", "t", "y", "p", "e", "O", "f">>,
                        <<"p", "r", "o", "p", "e", "r", "t", "y", "I", "s", "E", "n", "u", "m", "e", "r", "a", "b", "l", "e">>,
                        <<"t", "o", "L", "o", "c", "a", "l", "e", "S", "t", "r", "i", "n", "g">>,
                        <<"_", "_", "p", "r", "o", "t", "o", "_", "_">>}

(***************************************************************************)
(* Documents: the JSON values the files of the corpus hold. A record has   *)
(* the fields of interface PrimeVueDoc that the file has.                  *)
(***************************************************************************)
Has(v, f) == f \in DOMAIN v

DocAb ==
  [id |-> ComponentsPrefix \o <<"a", "b">>, title |-> <<"A", "b">>,
   tags |-> <<<<"x">>>>,
   content |-> [type |-> MarkdownMime, value |-> <<"A", "b", "\n", "#", "#", "#", " ", "A", "P", "I", "\n", "a", "b", " ", "a">>],
   metadata |-> [file |-> <<"c", "o", "m", "p", "o", "n", "e", "n", "t", "s", "/", "a", "b", ".", "m", "d">>]]
DocB ==
  [id |-> ComponentsPrefix \o <<"b">>, title |-> <<"b">>,
   tags |-> <<<<"A", "B">>, <<"x">>>>,
   content |-> [type |-> MarkdownMime, value |-> <<"x">>],
   metadata |-> [file |-> <<"1", "0", "/", "b", ".", "m", "d">>]]
DocQ ==
  [id |-> ComponentsPrefix \o <<"q">>, title |-> <<"A", "b">>,
   tags |-> <<>>,
   content |-> [type |-> <<"t", "e", "x", "t", "/", "h", "t", "m", "l">>, value |-> <<"q", "\n", "a", "\n", "A", "\n", "x", "a", "\n", "a", "b">>],
   metadata |-> [file |-> <<"9", "/", "q", ".", "m", "d">>]]
\* a second file with the id of DocAb
DocAb2 ==
  [id |-> ComponentsPrefix \o <<"a", "b">>, title |-> <<"q">>,
   tags |-> <<<<"b">>>>,
   content |-> [type |-> MarkdownMime, value |-> <<"#", "#", "#", " ", "A", "P", "I">>],
   metadata |-> [file |-> <<>>]]
\* an id outside the namespace, a category that Object.prototype names
DocX ==
  [id |-> <<"/", "d", "o", "c", "s", "/", "x">>, title |-> <<"B">>,
   tags |-> <<<<"x">>>>,
   content |-> [type |-> MarkdownMime, value |-> <<"b">>],
   metadata |-> [file |-> <<"c", "o", "n", "s", "t", "r", "u", "c", "t", "o", "r", "/", "x", ".", "m", "d">>]]
\* a category that differs from 'components' by case only, two markers,
\* four lines with an x
DocC ==
  [id |-> ComponentsPrefix \o <<"c">>, title |-> <<"Q">>,
   tags |-> <<<<"F", "o", "r", "m">>>>,
   content |-> [type |-> MarkdownMime, value |-> <<"C", " ", "#", "#", "#", " ", "A", "P", "I", "\n", "#", "#", "#", " ", "A", "P", "I", " ", "c", "\n", "x", "\n", "X", "\n", "x", "x", "\n", "x", " ", "c">>],
   metadata |-> [file |-> <<"C", "o", "m", "p", "o", "n", "e", "n", "t", "s", "/", "c", ".", "m", "d">>]]
\* the two documents of the end-to-end example
DocButton ==
  [id |-> ComponentsPrefix \o <<"b", "u", "t", "t", "o", "n">>, title |-> <<"b", "u", "t", "t", "o", "n">>,
   tags |-> <<<<"c", "o", "m", "p", "o", "n", "e", "n", "t", "s">>>>,
   content |-> [type |-> MarkdownMime, value |-> <<"B", "u", "t", "t", "o", "n", " ", "u", "s", "a", "g", "e", ".", " ", "#", "#", "#", " ", "A", "P", "I", "\n", "p", "r", "o", "p", "s", ":", " ", "l", "a", "b", "e", "l">>],
   metadata |-> [file |-> <<"c", "o", "m", "p", "o", "n", "e", "n", "t", "s", "/", "b", "u", "t", "t", "o", "n", ".", "m", "d">>]]
DocAccordion ==
  [id |-> ComponentsPrefix \o <<"a", "c", "c", "o", "r", "d", "i", "o", "n">>, title |-> <<"a", "c", "c", "o", "r", "d", "i", "o", "n">>,
   tags |-> <<<<"c", "o", "m", "p", "o", "n", "e", "n", "t", "s">>>>,
   content |-> [type |-> MarkdownMime, value |-> <<"A", "c", "c", "o", "r", "d", "i", "o", "n", " ", "u", "s", "a", "g", "e">>],
   metadata |-> [file |-> <<"c", "o", "m", "p", "o", "n", "e", "n", "t", "s", "/", "a", "c", "c", "o", "r", "d", "i", "o", "n", ".", "m", "d">>]]
\* JSON objects that are not PrimeVueDoc records: JSON.parse accepts them
DocNoTags ==
  [id |-> ComponentsPrefix \o <<"n">>, title |-> <<"a", "b">>,
   content |-> [type |-> MarkdownMime, value |-> <<"n">>],
   metadata |-> [file |-> <<"c", "o", "m", "p", "o", "n", "e", "n", "t", "s", "/", "n", ".", "m", "d">>]]
\* the value null, which has no properties to read
NullValue == [null |-> TRUE]
DocBare == [schema |-> <<"1", ".", "0">>]

(***************************************************************************)
(* The file system under the corpus root. A directory entry has a name, a  *)
(* type (Dirent.isDirectory / isFile / neither), and for a file what       *)
(* fs.readFile and JSON.parse make of it.                                  *)
(***************************************************************************)
FileOf(ext, type, readable, json, value) ==
  [ext |-> ext, type |-> type, readable |-> readable, json |-> json, value |-> value]
GoodFile(doc) == FileOf(JsonExt, "file", TRUE, "value", doc)
\* fs.readFile rejects
UnreadableFile == FileOf(JsonExt, "file", FALSE, "value", DocAb)
\* JSON.parse throws a SyntaxError
BadJsonFile == FileOf(JsonExt, "file", TRUE, "SyntaxError", DocAb)
\* the JSON text null: JSON.parse returns null
NullJsonFile == FileOf(JsonExt, "file", TRUE, "value", NullValue)
\* a regular file with another extension
MarkdownFile == FileOf(<<".", "m", "d">>, "file", TRUE, "value", DocAb)
\* a *.json entry that is neither a regular file nor a directory
SymlinkFile == FileOf(JsonExt, "other", TRUE, "value", DocAb)

QueryFiles == {GoodFile(DocAb), GoodFile(DocB), GoodFile(DocQ), GoodFile(DocAb2),
               GoodFile(DocX), GoodFile(DocC), GoodFile(DocNoTags), GoodFile(DocBare),
               BadJsonFile}
\* the corpus of the end-to-end example, and a file that is not loaded
ExampleFiles == {GoodFile(DocButton), GoodFile(DocAccordion), MarkdownFile}
LoadFiles == {GoodFile(DocAb), GoodFile(DocAb2), GoodFile(DocBare), UnreadableFile,
              BadJsonFile, NullJsonFile, MarkdownFile, SymlinkFile}

Slots == 1..NumFiles
SubDirName == <<"s", "u", "b">>
\* the name of the file in a slot
FileName(slot, file) == <<DigitChars[(slot % 10) + 1]>> \o file.ext
\* the slots of the files of a directory, in the order readdir lists them,
\* the sub-directory of the root standing between its first and last file
SubSlots == [k \in 1..(NumFiles - 2) |-> k + 1]

VARIABLES
  fs,      \* the file system: [rootOk, subOk, files]
  pc,      \* "constructed", "loading" (run awaits loadDocs), "connected"
  stack,   \* the pending calls of loadDocsRecursive, innermost last
  docs,    \* this.docs: the Map, as the sequence of its <<key, value>> entries
  log,     \* the lines written to console.error
  resp     \* the outcome of the request handled last

vars == <<fs, pc, stack, docs, log, resp>>

(***************************************************************************)
(* Map<string, PrimeVueDoc>: entries in the order of first insertion.      *)
(***************************************************************************)
\* the key doc.id: a string, or undefined when the value has no id
Undefined == <<"undefined">>
StrKey(s) == <<"string", s>>
KeyOf(doc) == IF Has(doc, "id") THEN StrKey(doc.id) ELSE Undefined

MapHas(m, k) == \E i \in 1..Len(m) : m[i][1] = k
MapGet(m, k) == m[CHOOSE i \in 1..Len(m) : m[i][1] = k][2]
\* a set that keeps the value a key already has
MapSetFirstWins(m, k, v) == IF MapHas(m, k) THEN m ELSE Append(m, <<k, v>>)

\* Map.prototype.set: a key that is present keeps its place
MapSet(m, k, v) ==
  IF MapHas(m, k)
  THEN [i \in 1..Len(m) |-> IF m[i][1] = k THEN <<k, v>> ELSE m[i]]
  ELSE Append(m, <<k, v>>)
MapValues(m) == [i \in 1..Len(m) |-> m[i][2]]

(***************************************************************************)
(* Load: run, loadDocs, loadDocsRecursive.                                 *)
(***************************************************************************)
DirEntry(name) == [name |-> name, type |-> "dir", slot |-> 0]
FileEntry(slot) == [name |-> FileName(slot, fs.files[slot]), type |-> fs.files[slot].type,
                    slot |-> slot]

\* fs.readdir(dirPath, {withFileTypes: true}) of a readable directory
ReadDirEntries(dirPath) ==
  IF dirPath = DocsPath
  THEN <<FileEntry(1), DirEntry(SubDirName), FileEntry(NumFiles)>>
  ELSE [k \in 1..Len(SubSlots) |-> FileEntry(SubSlots[k])]
ReadDirOk(dirPath) == IF dirPath = DocsPath THEN fs.rootOk ELSE fs.subOk

\* path.join(dirPath, entry.name)
PathJoin(dirPath, name) == dirPath \o <<"/">> \o name

Frame(dirPath) == [dirPath |-> dirPath, at |-> "readdir", entries |-> <<>>, i |-> 1]
Top == stack[Len(stack)]
Pop == SubSeq(stack, 1, Len(stack) - 1)

\* run: the call of loadDocs, which calls loadDocsRecursive(this.docsPath)
RunLoadDocs ==
  /\ pc = "constructed"
  /\ pc' = "loading"
  /\ stack' = <<Frame(DocsPath)>>
  /\ UNCHANGED <<fs, docs, log, resp>>

\* a readdir whose rejection is not caught where it happens: it ends the
\* whole load
ReadDirRethrows ==
  /\ stack # <<>>
  /\ Top.at = "readdir"
  /\ IF ReadDirOk(Top.dirPath)
     THEN /\ stack' = [stack EXCEPT ![Len(stack)] =
                         [@ EXCEPT !.at = "loop", !.entries = ReadDirEntries(Top.dirPath)]]
          /\ log' = log
     ELSE /\ stack' = <<>>
          /\ log' = Append(log, [msg |-> "Error loading docs", path |-> Top.dirPath])
  /\ UNCHANGED <<fs, pc, docs, resp>>

\* loadDocsRecursive: await fs.readdir; a rejection is caught, logged, and
\* the call returns
ReadDir ==
  /\ stack # <<>>
  /\ Top.at = "readdir"
  /\ IF ReadDirOk(Top.dirPath)
     THEN /\ stack' = [stack EXCEPT ![Len(stack)] =
                         [@ EXCEPT !.at = "loop", !.entries = ReadDirEntries(Top.dirPath)]]
          /\ log' = log
     ELSE /\ stack' = Pop
          /\ log' = Append(log, [msg |-> "Error reading directory", path |-> Top.dirPath])
  /\ UNCHANGED <<fs, pc, docs, resp>>

\* the body of the try block of one *.json file: readFile, JSON.parse,
\* this.docs.set(doc.id, doc); doc.id of null throws a TypeError
FileLoads(file) == file.readable /\ file.json = "value" /\ file.value # NullValue
LoadFile(fullPath, file) ==
  IF FileLoads(file)
  THEN /\ docs' = MapSet(docs, KeyOf(file.value), file.value)
       /\ log' = Append(log, [msg |-> "Loaded", path |-> fullPath, key |-> KeyOf(file.value)])
  ELSE /\ docs' = docs
       /\ log' = Append(log, [msg |-> "Error loading", path |-> fullPath])

\* loadDocsRecursive: one turn of the loop over the entries
VisitEntry ==
  /\ stack # <<>>
  /\ Top.at = "loop"
  /\ Top.i <= Len(Top.entries)
  /\ LET entry == Top.entries[Top.i]
         fullPath == PathJoin(Top.dirPath, entry.name)
         next == [stack EXCEPT ![Len(stack)] = [@ EXCEPT !.i = @ + 1]]
     IN  IF entry.type = "dir"
         THEN /\ stack' = Append(next, Frame(fullPath))
              /\ UNCHANGED <<docs, log>>
         ELSE IF entry.type = "file" /\ EndsWith(entry.name, JsonExt)
         THEN /\ stack' = next
              /\ LoadFile(fullPath, fs.files[entry.slot])
         ELSE /\ stack' = next
              /\ UNCHANGED <<docs, log>>
  /\ UNCHANGED <<fs, pc, resp>>

\* loadDocsRecursive: the loop is over, the call returns
ReturnDir ==
  /\ stack # <<>>
  /\ Top.at = "loop"
  /\ Top.i > Len(Top.entries)
  /\ stack' = Pop
  /\ UNCHANGED <<fs, pc, docs, log, resp>>

\* a run that does not await loadDocs
ConnectWithoutAwait ==
  /\ pc = "loading"
  /\ pc' = "connected"
  /\ log' = Append(log, [msg |-> "Loaded files", size |-> Len(docs)])
  /\ UNCHANGED <<fs, stack, docs, resp>>

\* run: loadDocs has resolved (it logs the size), the server connects to
\* its transport and requests are read from it
Connect ==
  /\ pc = "loading"
  /\ stack = <<>>
  /\ pc' = "connected"
  /\ log' = Append(log, [msg |-> "Loaded files", size |-> Len(docs)])
  /\ UNCHANGED <<fs, stack, docs, resp>>

(***************************************************************************)
(* Request handlers. A request is handled in one step: no handler awaits.  *)
(* resp records the arguments and either what the handler returned or that *)
(* it threw.                                                               *)
(***************************************************************************)
NoResp == [op |-> "none"]
\* an optional argument that is not supplied is undefined; undefined and ''
\* are falsy
Truthy(arg) == arg # Undefined /\ arg # <<>>

\* doc.metadata.file.split('/')[0]
FirstSegment(doc) == Split(doc.metadata.file, "/")[1]
\* doc.metadata.file.split('/')[0] || 'Unknown'
CategoryOf(doc) == IF FirstSegment(doc) = <<>> THEN UnknownCategory ELSE FirstSegment(doc)

(* ---------------- resource primevue://{docPath} ---------------- *)
ResourceId(docPath) == Namespace \o docPath

ResourceResult(docPath) ==
  LET docId == StrKey(ResourceId(docPath))
  IN  IF ~MapHas(docs, docId)
      THEN [op |-> "resource", docPath |-> docPath, status |-> "raise",
            error |-> "Documentation not found"]
      ELSE IF ~Has(MapGet(docs, docId), "content")
      THEN [op |-> "resource", docPath |-> docPath, status |-> "raise",
            error |-> "TypeError"]
      ELSE [op |-> "resource", docPath |-> docPath, status |-> "ok",
            mimeType |-> MarkdownMime, text |-> MapGet(docs, docId).content.value]

(* ---------------- search_primevue_docs ---------------- *)
\* the component pre-filter: the document is passed over
SearchSkips(doc, component) ==
  Truthy(component) /\ ~Includes(ToLowerCase(doc.title), ToLowerCase(component))

TitleMatch(doc, searchTerm) == Includes(ToLowerCase(doc.title), searchTerm)
\* the content compared as it is written, not in lower case
ContentMatchCaseSensitive(doc, searchTerm) == Includes(doc.content.value, searchTerm)

ContentMatch(doc, searchTerm) == Includes(ToLowerCase(doc.content.value), searchTerm)
TagsMatch(doc, searchTerm) ==
  \E k \in 1..Len(doc.tags) : Includes(ToLowerCase(doc.tags[k]), searchTerm)
\* a search that forgets the tags
SearchMatchesNoTags(doc, searchTerm) ==
  TitleMatch(doc, searchTerm) \/ ContentMatch(doc, searchTerm)
SearchMatches(doc, searchTerm) ==
  TitleMatch(doc, searchTerm) \/ ContentMatch(doc, searchTerm) \/ TagsMatch(doc, searchTerm)

\* the turn of the loop for this entry of the Map throws a TypeError: a
\* property of undefined is read
SearchThrows(key, doc, searchTerm, component) ==
  \/ Truthy(component) /\ ~Has(doc, "title")
  \/ /\ ~(Truthy(component) /\ SearchSkips(doc, component))
     /\ \/ ~Has(doc, "content")
        \/ ~Has(doc, "title")
        \/ ~Has(doc, "tags")
        \/ /\ SearchMatches(doc, searchTerm)
           /\ (~Has(doc, "metadata") \/ key = Undefined)

\* the lines of content.value that contain the search term, three at most,
\* or the placeholder
\* every matching line kept, without the slice
SnippetUnsliced(doc, searchTerm) ==
  LET lines == Split(doc.content.value, "\n")
      relevantLines ==
        Filter(lines, {n \in 1..Len(lines) : Includes(ToLowerCase(lines[n]), searchTerm)})
  IN  IF Len(relevantLines) > 0 THEN Join(relevantLines, <<"\n">>)
      ELSE doc.title \o DocumentationSuffix

Snippet(doc, searchTerm) ==
  LET lines == Split(doc.content.value, "\n")
      relevantLines ==
        Slice0(Filter(lines, {n \in 1..Len(lines) : Includes(ToLowerCase(lines[n]), searchTerm)}),
               SnippetLines)
  IN  IF Len(relevantLines) > 0 THEN Join(relevantLines, <<"\n">>)
      ELSE doc.title \o DocumentationSuffix

ResultEntry(key, doc, searchTerm) ==
  [component |-> doc.title,
   category |-> CategoryOf(doc),
   id |-> doc.id,
   snippet |-> Snippet(doc, searchTerm),
   uri |-> UriScheme \o Replace(key[2], Namespace, <<>>),
   tags |-> doc.tags]

\* a comparator with its operands exchanged
SearchSortReversed(results, searchTerm) ==
  StableSort(results, [a, b \in 1..Len(results) |->
    (IF Includes(ToLowerCase(results[a].component), searchTerm) THEN 1 ELSE 0)
    - (IF Includes(ToLowerCase(results[b].component), searchTerm) THEN 1 ELSE 0)])

\* results.sort: title matches first
SearchSort(results, searchTerm) ==
  StableSort(results, [a, b \in 1..Len(results) |->
    (IF Includes(ToLowerCase(results[b].component), searchTerm) THEN 1 ELSE 0)
    - (IF Includes(ToLowerCase(results[a].component), searchTerm) THEN 1 ELSE 0)])

\* the indexes of the Map entries that the loop pushes a result for
SearchKept(searchTerm, component) ==
  Filter([i \in 1..Len(docs) |-> i],
         {i \in 1..Len(docs) : /\ ~SearchSkips(docs[i][2], component)
                               /\ SearchMatches(docs[i][2], searchTerm)})

SearchResult(query, component) ==
  LET searchTerm == ToLowerCase(query)
  IN  IF \E i \in 1..Len(docs) : SearchThrows(docs[i][1], docs[i][2], searchTerm, component)
      THEN [op |-> "search", query |-> query, component |-> component,
            status |-> "raise", error |-> "TypeError"]
      ELSE LET kept == SearchKept(searchTerm, component)
               results == [k \in 1..Len(kept) |->
                             ResultEntry(docs[kept[k]][1], docs[kept[k]][2], searchTerm)]
           IN  [op |-> "search", query |-> query, component |-> component,
                status |-> "ok", results |-> SearchSort(results, searchTerm)]

(* ---------------- get_component_api ---------------- *)
TitleEquals(doc, component) == ToLowerCase(doc.title) = ToLowerCase(component)

\* Array.prototype.find over the values: the indexes the predicate is
\* called on are those up to the first one it holds for
FindStops(component) ==
  {i \in 1..Len(docs) : Has(docs[i][2], "title") /\ TitleEquals(docs[i][2], component)}
FindIndex(component) ==
  IF FindStops(component) = {} THEN 0
  ELSE CHOOSE i \in FindStops(component) : \A j \in FindStops(component) : i <= j
FindThrows(component) ==
  \E i \in 1..Len(docs) :
     /\ ~Has(docs[i][2], "title")
     /\ (FindIndex(component) = 0 \/ i < FindIndex(component))

ComponentId(component) == ComponentsPrefix \o ToLowerCase(component)

\* the comparator of the listing: by category, then by title
ListingCompare(a, b) ==
  IF LocaleCompare(a.category, b.category) # 0
  THEN LocaleCompare(a.category, b.category)
  ELSE LocaleCompare(a.title, b.title)

AvailableComponents ==
  LET mapped == [i \in 1..Len(docs) |->
                   [title |-> docs[i][2].title, category |-> CategoryOf(docs[i][2])]]
  IN  StableSort(mapped, [a, b \in 1..Len(mapped) |-> ListingCompare(mapped[a], mapped[b])])

\* the value of a decimal digit, -1 for another character
DigitTable == [c \in Chars |-> PosIn(c, DigitChars) - 1]

\* a property name that is an array index: Object.entries lists these
\* first, in increasing numeric order, and the other names after them in
\* the order they were added
IsArrayIndex(name) ==
  /\ Len(name) > 0
  /\ Len(name) < 10
  /\ \A i \in 1..Len(name) : DigitTable[name[i]] >= 0
  /\ (Len(name) = 1 \/ name[1] # "0")
RECURSIVE NumericValue(_)
NumericValue(name) ==
  IF Len(name) = 0 THEN 0
  ELSE 10 * NumericValue(SubSeq(name, 1, Len(name) - 1)) + DigitTable[name[Len(name)]]

\* the categories in the order the reduce adds them to the object
FirstAdded(sorted) ==
  Filter([i \in 1..Len(sorted) |-> sorted[i].category],
         {i \in 1..Len(sorted) : \A j \in 1..(i - 1) : sorted[j].category # sorted[i].category})

\* Object.entries(componentsByCategory): the names in property order
ObjectKeys(added) ==
  LET indexes == Filter(added, {n \in 1..Len(added) : IsArrayIndex(added[n])})
      others == Filter(added, {n \in 1..Len(added) : ~IsArrayIndex(added[n])})
  IN  StableSort(indexes, [a, b \in 1..Len(indexes) |->
                            NumericValue(indexes[a]) - NumericValue(indexes[b])]) \o others

\* the reduce throws: acc[category] is a member of Object.prototype, which
\* is truthy and has no push
ReduceThrows(sorted) == \E i \in 1..Len(sorted) : sorted[i].category \in ObjectPrototypeKeys

ComponentsByCategory(sorted) ==
  LET keys == ObjectKeys(FirstAdded(sorted))
  IN  [k \in 1..Len(keys) |->
         [category |-> keys[k],
          components |->
            Filter([n \in 1..Len(sorted) |-> sorted[n].title],
                   {n \in 1..Len(sorted) : sorted[n].category = keys[k]})]]

NotFoundListing(component) ==
  IF \E i \in 1..Len(docs) : ~Has(docs[i][2], "metadata")
  THEN [op |-> "api", component |-> component, status |-> "raise", error |-> "TypeError"]
  ELSE IF ReduceThrows(AvailableComponents)
  THEN [op |-> "api", component |-> component, status |-> "raise", error |-> "TypeError"]
  ELSE [op |-> "api", component |-> component, status |-> "ok", found |-> FALSE,
        listing |-> ComponentsByCategory(AvailableComponents)]

\* the content cut at the last marker instead of the first
ApiContentLastMarker(content) ==
  LET at == {n \in 1..(Len(content) - Len(ApiMarker) + 1) :
               SubSeq(content, n, n + Len(ApiMarker) - 1) = ApiMarker}
  IN  IF at = {} THEN content
      ELSE SubSeq(content, CHOOSE n \in at : \A m \in at : m <= n, Len(content))

ApiContent(content) ==
  LET apiStart == IndexOf(content, ApiMarker)
  IN  IF apiStart > -1 THEN Substring(content, apiStart) ELSE content

ApiReference(component, doc) ==
  IF ~Has(doc, "content") \/ ~Has(doc, "metadata") \/ ~Has(doc, "tags")
  THEN [op |-> "api", component |-> component, status |-> "raise", error |-> "TypeError"]
  ELSE [op |-> "api", component |-> component, status |-> "ok", found |-> TRUE,
        doc |-> doc,
        title |-> doc.title,
        category |-> FirstSegment(doc),
        tags |-> doc.tags,
        apiContent |-> ApiContent(doc.content.value),
        text |-> ApiHeading \o doc.title \o ApiReferenceLine \o FirstSegment(doc)
                 \o ApiTagsLine \o Join(doc.tags, <<",", " ">>)
                 \o <<"\n", "\n">> \o ApiContent(doc.content.value)]

\* a lookup that tries the id before the title
ApiResultIdFirst(component) ==
  IF MapHas(docs, StrKey(ComponentId(component)))
  THEN ApiReference(component, MapGet(docs, StrKey(ComponentId(component))))
  ELSE IF FindThrows(component)
  THEN [op |-> "api", component |-> component, status |-> "raise", error |-> "TypeError"]
  ELSE IF FindIndex(component) # 0
  THEN ApiReference(component, docs[FindIndex(component)][2])
  ELSE NotFoundListing(component)

ApiResult(component) ==
  IF FindThrows(component)
  THEN [op |-> "api", component |-> component, status |-> "raise", error |-> "TypeError"]
  ELSE IF FindIndex(component) # 0
  THEN ApiReference(component, docs[FindIndex(component)][2])
  ELSE IF MapHas(docs, StrKey(ComponentId(component)))
  THEN ApiReference(component, MapGet(docs, StrKey(ComponentId(component))))
  ELSE NotFoundListing(component)

(* ---------------- list_categories ---------------- *)
\* the documents the loop does not pass over
ListKept(category) ==
  Filter(MapValues(docs),
         {i \in 1..Len(docs) : ~(Truthy(category)
                                 /\ ToLowerCase(CategoryOf(docs[i][2])) # ToLowerCase(category))})

\* the keys of the categories Map, in the order of first insertion
\* a group opened for every document instead of one per category
ListKeysPerDocument(kept) == [i \in 1..Len(kept) |-> CategoryOf(kept[i])]

ListKeys(kept) ==
  Filter([i \in 1..Len(kept) |-> CategoryOf(kept[i])],
         {i \in 1..Len(kept) : \A j \in 1..(i - 1) : CategoryOf(kept[j]) # CategoryOf(kept[i])})

\* components.sort(): undefined last, strings by code units
DefaultCompare(a, b) ==
  IF a = Undefined /\ b = Undefined THEN 0
  ELSE IF a = Undefined THEN 1
  ELSE IF b = Undefined THEN -1
  ELSE CodeUnitCompare(a, b)

TitleOrUndefined(doc) == IF Has(doc, "title") THEN doc.title ELSE Undefined

ListGroup(kept, cat) ==
  LET pushed == Filter([n \in 1..Len(kept) |-> TitleOrUndefined(kept[n])],
                       {n \in 1..Len(kept) : CategoryOf(kept[n]) = cat})
      components == StableSort(pushed, [a, b \in 1..Len(pushed) |->
                                         DefaultCompare(pushed[a], pushed[b])])
  IN  [category |-> cat, items |-> Len(components), components |-> components]

ListResult(category) ==
  IF \E i \in 1..Len(docs) : ~Has(docs[i][2], "metadata")
  THEN [op |-> "list", category |-> category, status |-> "raise", error |-> "TypeError"]
  ELSE LET kept == ListKept(category)
           keys == ListKeys(kept)
       IN  [op |-> "list", category |-> category, status |-> "ok",
            groups |-> [k \in 1..Len(keys) |-> ListGroup(kept, keys[k])]]

(***************************************************************************)
(* The requests: the arguments a client sends.                             *)
(***************************************************************************)
Queries == {<<"a", "b">>, <<"B">>, <<"x">>, <<"a", "p", "i">>}
SearchComponents == {Undefined, <<>>, <<"a">>, <<"Q">>}
ApiComponents == {<<"A", "B">>, <<"q">>, <<"z", "z">>}
ListCategoriesArgs == {Undefined, <<>>, <<"C", "O", "M", "P", "O", "N", "E", "N", "T", "S">>, <<"z", "z">>}
DocPaths == {<<"c", "o", "m", "p", "o", "n", "e", "n", "t", "s", "/", "a", "b">>, <<"c", "o", "m", "p", "o", "n", "e", "n", "t", "s", "/", "q">>, <<"z", "z">>}

\* requests reach the handlers once the server is connected to its transport
ReadResource ==
  /\ pc = "connected"
  /\ resp = NoResp
  /\ \E docPath \in DocPaths : resp' = ResourceResult(docPath)
  /\ UNCHANGED <<fs, pc, stack, docs, log>>

Search ==
  /\ pc = "connected"
  /\ resp = NoResp
  /\ \E query \in Queries, component \in SearchComponents :
        resp' = SearchResult(query, component)
  /\ UNCHANGED <<fs, pc, stack, docs, log>>

\* a handler that keeps the document it found under the name it was asked for
GetComponentAPICaching ==
  /\ pc = "connected"
  /\ resp = NoResp
  /\ \E component \in ApiComponents :
        /\ resp' = ApiResult(component)
        /\ docs' = IF resp'.status = "ok" /\ resp'.found
                   THEN MapSet(docs, StrKey(component), resp'.doc)
                   ELSE docs
  /\ UNCHANGED <<fs, pc, stack, log>>

GetComponentAPI ==
  /\ pc = "connected"
  /\ resp = NoResp
  /\ \E component \in ApiComponents : resp' = ApiResult(component)
  /\ UNCHANGED <<fs, pc, stack, docs, log>>

ListCategories ==
  /\ pc = "connected"
  /\ resp = NoResp
  /\ \E category \in ListCategoriesArgs : resp' = ListResult(category)
  /\ UNCHANGED <<fs, pc, stack, docs, log>>

\* the value a handler returned, or its error, goes to the client, and the
\* server reads the next request
SendResponse ==
  /\ resp # NoResp
  /\ resp' = NoResp
  /\ UNCHANGED <<fs, pc, stack, docs, log>>

(***************************************************************************)
(* Specifications.                                                         *)
(***************************************************************************)
\* the state after new PrimeVueServer(docsPath): an empty Map, the handlers
\* registered, nothing loaded
Constructed ==
  /\ pc = "constructed"
  /\ stack = <<>>
  /\ docs = <<>>
  /\ log = <<>>
  /\ resp = NoResp

\* a corpus that reads: documents of every shape, one file that does not parse
Init ==
  /\ fs \in [rootOk : {TRUE}, subOk : {TRUE}, files : [Slots -> QueryFiles]]
  /\ Constructed

\* the corpus of the end-to-end example: the two documents, in any order
\* and in either directory
InitExample ==
  /\ fs \in {f \in [rootOk : {TRUE}, subOk : {TRUE}, files : [Slots -> ExampleFiles]] :
               /\ \E s \in Slots : f.files[s] = GoodFile(DocButton)
               /\ \E s \in Slots : f.files[s] = GoodFile(DocAccordion)}
  /\ Constructed

\* a corpus with every kind of failure
InitLoad ==
  /\ fs \in [rootOk : BOOLEAN, subOk : BOOLEAN, files : [Slots -> LoadFiles]]
  /\ Constructed

Next ==
  \/ RunLoadDocs
  \/ ReadDir
  \/ VisitEntry
  \/ ReturnDir
  \/ Connect
  \/ ReadResource
  \/ Search
  \/ GetComponentAPI
  \/ ListCategories
  \/ SendResponse

Spec == Init /\ [][Next]_vars
SpecLoad == InitLoad /\ [][Next]_vars
SpecExample == InitExample /\ [][Next]_vars

(***************************************************************************)
(* Properties.                                                             *)
(***************************************************************************)
Returned(op) == resp.op = op /\ resp.status = "ok"
Smallest(S) == CHOOSE i \in S : \A j \in S : i <= j

\* the place of a key in the order of first insertion at load: the first
\* "Loaded" line of the log that names it
FirstLoaded(key) ==
  Smallest({n \in 1..Len(log) : log[n].msg = "Loaded" /\ log[n].key = key})

\* the category of a document: the first '/'-separated segment of
\* metadata.file, 'Unknown' when that segment is empty
Category(D) ==
  LET slash == {n \in 1..Len(D.metadata.file) : D.metadata.file[n] = "/"}
      first == IF slash = {} THEN D.metadata.file
               ELSE SubSeq(D.metadata.file, 1, Smallest(slash) - 1)
  IN  IF first = <<>> THEN UnknownCategory ELSE first

(* ---------------- C1 ---------------- *)
\* the entries of the collection that Search(q, c) has to return
SearchExpected(q, c) ==
  {i \in 1..Len(docs) :
     LET D == docs[i][2]
     IN  /\ (c = Undefined \/ Includes(ToLowerCase(D.title), ToLowerCase(c)))
         /\ \/ Includes(ToLowerCase(D.title), ToLowerCase(q))
            \/ Includes(ToLowerCase(D.content.value), ToLowerCase(q))
            \/ \E n \in 1..Len(D.tags) : Includes(ToLowerCase(D.tags[n]), ToLowerCase(q))}

\* C1: the documents that Search(q, c) returns are exactly the documents D
\* with (c not supplied or lower(D.title) contains lower(c)) and lower(q) a
\* substring of lower(D.title), of lower(D.content.value) or of a lower-cased
\* tag of D; each of them is returned once.
C1_SearchExact ==
  Returned("search") =>
    LET want == SearchExpected(resp.query, resp.component)
    IN  /\ Len(resp.results) = Cardinality(want)
        /\ \A i \in want : \E k \in 1..Len(resp.results) :
              /\ resp.results[k].id = docs[i][2].id
              /\ resp.results[k].component = docs[i][2].title
        /\ \A k \in 1..Len(resp.results) : \E i \in want :
              resp.results[k].id = docs[i][2].id

\* a search within a component that returns a document matched by a tag
\* alone and leaves a document of the collection out
C1_Witness ==
  /\ Returned("search")
  /\ resp.component \notin {Undefined, <<>>}
  /\ Len(resp.results) < Len(docs)
  /\ \E k \in 1..Len(resp.results) :
        /\ ~Includes(ToLowerCase(resp.results[k].component), ToLowerCase(resp.query))
        /\ \A i \in 1..Len(docs) :
              docs[i][2].id = resp.results[k].id =>
                ~Includes(ToLowerCase(docs[i][2].content.value), ToLowerCase(resp.query))

(* ---------------- C2 ---------------- *)
InTitle(entry) == Includes(ToLowerCase(entry.component), ToLowerCase(resp.query))

\* C2: in the sequence Search(q) returns, every entry whose title contains q
\* comes before every entry whose title does not, and inside each of the two
\* groups the entries stand in the order of first insertion at load.
C2_StablePartition ==
  Returned("search") =>
    \A k, l \in 1..Len(resp.results) :
       k < l =>
         /\ ~(~InTitle(resp.results[k]) /\ InTitle(resp.results[l]))
         /\ (InTitle(resp.results[k]) = InTitle(resp.results[l]) =>
               FirstLoaded(StrKey(resp.results[k].id)) < FirstLoaded(StrKey(resp.results[l].id)))

\* two title matches returned ahead of an entry that was loaded before them
C2_Witness ==
  /\ Returned("search")
  /\ \E k, l, m \in 1..Len(resp.results) :
        /\ k < l /\ l < m
        /\ InTitle(resp.results[k]) /\ InTitle(resp.results[l])
        /\ ~InTitle(resp.results[m])
        /\ FirstLoaded(StrKey(resp.results[m].id)) < FirstLoaded(StrKey(resp.results[k].id))

(* ---------------- C3 ---------------- *)
TitleHits(c) ==
  {i \in 1..Len(docs) : Has(docs[i][2], "title")
                         /\ ToLowerCase(docs[i][2].title) = ToLowerCase(c)}
IdHits(c) ==
  {i \in 1..Len(docs) : docs[i][1] = StrKey(ComponentsPrefix \o ToLowerCase(c))}

\* C3: GetComponentAPI(c) uses the first document in iteration order whose
\* title equals c case-insensitively when there is one, otherwise the
\* document stored under "/primevue/components/" + lower(c); the not-found
\* listing is returned only when there is neither.
C3_LookupOrder ==
  Returned("api") =>
    /\ TitleHits(resp.component) # {} =>
          resp.found /\ resp.doc = docs[Smallest(TitleHits(resp.component))][2]
    /\ (TitleHits(resp.component) = {} /\ IdHits(resp.component) # {}) =>
          resp.found /\ \A i \in IdHits(resp.component) : resp.doc = docs[i][2]
    /\ ~resp.found => (TitleHits(resp.component) = {} /\ IdHits(resp.component) = {})

\* a title match is returned while another document is stored under the id
C3_Witness ==
  /\ Returned("api")
  /\ resp.found
  /\ TitleHits(resp.component) # {}
  /\ \E i \in IdHits(resp.component) : docs[i][2] # resp.doc

(* ---------------- C4 ---------------- *)
Occurrences(seq, x) == Cardinality({n \in 1..Len(seq) : seq[n] = x})

\* C4: the not-found listing of GetComponentAPI holds the title of every
\* loaded document once, under the group of its category; the groups are in
\* lexicographic order of category name and the titles of a group in
\* lexicographic order, also when category names are strings of digits.
C4_ListingSorted ==
  (Returned("api") /\ ~resp.found) =>
    LET L == resp.listing
    IN  /\ \A i \in 1..Len(docs) : \E k \in 1..Len(L) :
              /\ L[k].category = Category(docs[i][2])
              /\ Occurrences(L[k].components, docs[i][2].title)
                   = Cardinality({j \in 1..Len(docs) :
                        /\ docs[j][2].title = docs[i][2].title
                        /\ Category(docs[j][2]) = Category(docs[i][2])})
        /\ \A k \in 1..Len(L) : \A n \in 1..Len(L[k].components) :
              \E i \in 1..Len(docs) : /\ docs[i][2].title = L[k].components[n]
                                      /\ Category(docs[i][2]) = L[k].category
        /\ \A k, l \in 1..Len(L) : k < l => LocaleCompare(L[k].category, L[l].category) < 0
        /\ \A k \in 1..Len(L) : \A a, b \in 1..Len(L[k].components) :
              a < b => LocaleCompare(L[k].components[a], L[k].components[b]) <= 0

(* ---------------- C5 ---------------- *)
\* C5: none of Search, GetComponentAPI and ListCategories raises to the
\* caller, whatever collection the load produced and whatever the arguments.
C5_ToolsNeverRaise ==
  resp.op \in {"search", "api", "list"} => resp.status = "ok"

(* ---------------- C6 ---------------- *)
StoredUnder(docPath) == {i \in 1..Len(docs) : docs[i][1] = StrKey(Namespace \o docPath)}

\* C6: resolving primevue://{docPath} returns content.value of the document
\* stored under "/primevue/" + docPath with that document's content.type as
\* the mime type, and raises not-found exactly when no document is stored there.
C6_ResourceDeclaredType ==
  resp.op = "resource" =>
    IF StoredUnder(resp.docPath) = {}
    THEN resp.status = "raise" /\ resp.error = "Documentation not found"
    ELSE /\ resp.status = "ok"
         /\ \A i \in StoredUnder(resp.docPath) :
               /\ resp.text = docs[i][2].content.value
               /\ resp.mimeType = docs[i][2].content.type

(* ---------------- C8 ---------------- *)
\* C8: once the load is complete and the server connected, no step changes
\* the collection: its keys, its documents and its iteration order are the
\* same after any request as before it.
C8_CollectionFrozen == [][pc = "connected" => docs' = docs]_vars

\* a component lookup has been answered from a collection of several documents
C8_Witness ==
  /\ Returned("api")
  /\ resp.found
  /\ Len(docs) >= 2

(* ---------------- the corpus on disk ---------------- *)
\* the file entries that the walk reaches: those of the root when it can be
\* read, those of the sub-directory when both can be read
Reached ==
  IF ~fs.rootOk THEN {}
  ELSE {1, NumFiles} \cup (IF fs.subOk THEN 2..(NumFiles - 1) ELSE {})
\* the walk visits the entries in the order of their slots
RegularJson(s) ==
  /\ s \in Reached
  /\ fs.files[s].type = "file"
  /\ EndsWith(FileName(s, fs.files[s]), JsonExt)
\* the regular *.json files that were read and parsed without an error
ReadAndParsed == {s \in Slots : RegularJson(s) /\ fs.files[s].readable
                                 /\ fs.files[s].json # "SyntaxError"}
\* those of them whose JSON value is not null
NonNull == {s \in ReadAndParsed : fs.files[s].value # NullValue}
IdOf(s) == KeyOf(fs.files[s].value)
\* s is the last file of S that carries its id
LastOfId(S, s) == \A s2 \in S : s2 > s => IdOf(s2) # IdOf(s)
Values(m) == {m[i][2] : i \in 1..Len(m)}
\* the collection the whole walk leaves
FinalValues == {fs.files[s].value : s \in {s2 \in NonNull : LastOfId(NonNull, s2)}}

(* ---------------- C7 ---------------- *)
\* C7: the corpus is loaded once and the load has finished before the server
\* connects: no request is handled while a directory is still being walked,
\* and every request sees the complete final collection.
C7_LoadBeforeServe ==
  /\ resp # NoResp => pc = "connected"
  /\ pc = "connected" => /\ stack = <<>>
                         /\ Values(docs) = FinalValues
                         /\ Len(docs) = Cardinality(FinalValues)
  /\ \A n, o \in 1..Len(log) :
        (n # o /\ log[n].msg # "Loaded files" /\ log[o].msg # "Loaded files")
           => log[n].path # log[o].path
  /\ Cardinality({n \in 1..Len(log) : log[n].msg = "Loaded files"}) <= 1

\* a request is answered from a collection of documents out of both directories
C7_Witness ==
  /\ resp # NoResp
  /\ resp.status = "ok"
  /\ Len(docs) >= 2
  /\ \E s \in NonNull : s \in 2..(NumFiles - 1)

(* ---------------- C9 ---------------- *)
\* C9: after Load the collection holds exactly the documents of the regular
\* *.json files that were read and parsed successfully (the last file of an
\* id standing for the id); a failing file or sub-directory does not keep
\* the later files out; an unreadable root leaves the collection empty.
C9_HoldsAllParsed ==
  pc = "connected" =>
    /\ \A s \in ReadAndParsed :
          LastOfId(ReadAndParsed, s) => fs.files[s].value \in Values(docs)
    /\ \A D \in Values(docs) : \E s \in ReadAndParsed : fs.files[s].value = D
    /\ ~fs.rootOk => docs = <<>>

\* C9, amended: after Load the collection holds exactly the documents of the
\* regular *.json files that were read and parsed to a value other than
\* null, the last file of an id standing for the id; a file that fails, a
\* file holding null or a sub-directory that cannot be read is passed over
\* and the later files are loaded; an unreadable root leaves the collection
\* empty; the load always goes on to its end and the server then serves.
C9_FailSoftLoad ==
  /\ pc = "connected" => /\ Values(docs) = FinalValues
                         /\ Len(docs) = Cardinality(FinalValues)
                         /\ ~fs.rootOk => docs = <<>>
  /\ pc = "loading" => ENABLED (ReadDir \/ VisitEntry \/ ReturnDir \/ Connect)
  /\ (pc = "connected" /\ resp = NoResp) =>
        ENABLED (ReadResource \/ Search \/ GetComponentAPI \/ ListCategories)

\* the load is over; a file that failed, or a sub-directory that could not
\* be read, stands before a file whose document is in the collection
C9_Witness ==
  /\ pc = "connected"
  /\ fs.files[NumFiles].value \in Values(docs)
  /\ NumFiles \in NonNull
  /\ \/ ~fs.subOk
     \/ \E s \in Slots : s < NumFiles /\ RegularJson(s) /\ s \notin NonNull

(* ---------------- C10 ---------------- *)
\* C10: after Load every document D of the collection is stored under D.id
\* and Lookup(D.id) is D; no two entries share an id; of several parsed
\* files with one id the collection holds the document of the last one
\* loaded and none of the earlier ones.
C10_KeyedByIdLastWins ==
  pc = "connected" =>
    /\ \A i \in 1..Len(docs) :
          /\ docs[i][1] = KeyOf(docs[i][2])
          /\ MapHas(docs, KeyOf(docs[i][2]))
          /\ MapGet(docs, KeyOf(docs[i][2])) = docs[i][2]
    /\ \A i, j \in 1..Len(docs) : i # j => docs[i][1] # docs[j][1]
    /\ \A s \in NonNull :
          IF LastOfId(NonNull, s)
          THEN MapHas(docs, IdOf(s)) /\ MapGet(docs, IdOf(s)) = fs.files[s].value
          ELSE (\A s2 \in NonNull : s2 > s => fs.files[s2].value # fs.files[s].value)
                  => fs.files[s].value \notin Values(docs)

\* two files with one id and different documents were loaded
C10_Witness ==
  /\ pc = "connected"
  /\ \E s, s2 \in NonNull :
        /\ s < s2
        /\ IdOf(s) = IdOf(s2)
        /\ fs.files[s].value # fs.files[s2].value


(* ---------------- C11 ---------------- *)
\* the places in the collection of the documents of a category
DocsOfCategory(cat) == {i \in 1..Len(docs) : Category(docs[i][2]) = cat}
RECURSIVE SumItems(_)
SumItems(groups) ==
  IF groups = <<>> THEN 0 ELSE groups[1].items + SumItems(Tail(groups))

\* C11: ListCategories without a filter returns exactly one group for every
\* category present in the collection, lists the title of every document in
\* the group of its category and nowhere else, reports for each group the
\* number of documents of its category, and the group sizes sum to the
\* number of documents.
C11_ListPartition ==
  (Returned("list") /\ resp.category = Undefined) =>
    LET G == resp.groups
    IN  /\ \A i \in 1..Len(docs) :
             \E g \in 1..Len(G) : G[g].category = Category(docs[i][2])
        /\ \A g \in 1..Len(G) : DocsOfCategory(G[g].category) # {}
        /\ \A g, h \in 1..Len(G) : G[g].category = G[h].category => g = h
        /\ \A g \in 1..Len(G) :
             /\ G[g].items = Cardinality(DocsOfCategory(G[g].category))
             /\ Len(G[g].components) = G[g].items
             /\ \A i \in 1..Len(docs) :
                  Occurrences(G[g].components, docs[i][2].title)
                    = Cardinality({j \in DocsOfCategory(G[g].category) :
                                     docs[j][2].title = docs[i][2].title})
        /\ SumItems(G) = Len(docs)

\* an unfiltered listing of several groups, one of them of two documents
C11_Witness ==
  /\ Returned("list")
  /\ resp.category = Undefined
  /\ Len(resp.groups) >= 2
  /\ \E g \in 1..Len(resp.groups) : resp.groups[g].items >= 2

(* ---------------- C12 ---------------- *)
\* the places of the documents whose category equals x when case is ignored
DocsOfCategoryIgnoringCase(x) ==
  {i \in 1..Len(docs) : ToLowerCase(Category(docs[i][2])) = ToLowerCase(x)}

\* C12: ListCategories(category = X) with X supplied outputs at most one
\* group: the single group whose name equals X case-insensitively, holding
\* exactly the documents of that category; when no category equals X
\* case-insensitively the body is empty and the response is not an error.
C12_FilterSingleGroup ==
  (Returned("list") /\ resp.category # Undefined) =>
    LET G == resp.groups
        matching == DocsOfCategoryIgnoringCase(resp.category)
    IN  /\ Len(G) <= 1
        /\ (matching = {}) <=> (G = <<>>)
        /\ \A g \in 1..Len(G) :
             /\ ToLowerCase(G[g].category) = ToLowerCase(resp.category)
             /\ G[g].items = Cardinality(matching)
             /\ Len(G[g].components) = G[g].items
             /\ \A i \in matching :
                  Occurrences(G[g].components, docs[i][2].title)
                    = Cardinality({j \in matching : docs[j][2].title = docs[i][2].title})

(* ---------------- C13 ---------------- *)
\* Search("api") without a component filter has returned
SearchedApi ==
  /\ Returned("search")
  /\ resp.query = <<"a", "p", "i">>
  /\ resp.component = Undefined

\* C13 as stated: on the corpus of the two documents button (content of the
\* two lines "Button usage. ### API" and "props: label") and accordion
\* (content "Accordion usage"), Search("api") returns exactly one entry, the
\* one of button, and its snippet is the line "### API".
C13_ExampleSnippetMarker ==
  SearchedApi =>
    /\ Len(resp.results) = 1
    /\ resp.results[1].id = DocButton.id
    /\ resp.results[1].snippet = <<"#", "#", "#", " ", "A", "P", "I">>

\* C13 amended: on that corpus Search("api") returns exactly one entry, the
\* one of button, and its snippet is the whole first line of the content,
\* "Button usage. ### API", the only line that contains "api".
C13_ExampleSnippetLine ==
  SearchedApi =>
    /\ Len(resp.results) = 1
    /\ resp.results[1].id = DocButton.id
    /\ resp.results[1].component = DocButton.title
    /\ resp.results[1].snippet = <<"B", "u", "t", "t", "o", "n", " ", "u", "s", "a", "g", "e", ".", " ", "#", "#", "#", " ", "A", "P", "I">>

\* Search("api") has returned on the corpus of exactly the two documents
C13_Witness ==
  /\ SearchedApi
  /\ Values(docs) = {DocButton, DocAccordion}
  /\ Len(docs) = 2

(* ---------------- C14 ---------------- *)
\* the lines of a text are delimited by its start, its newlines and its end;
\* a line is named by the break in front of it
Breaks(s) == {0} \cup {n \in 1..Len(s) : s[n] = "\n"}
LineAfter(s, b) ==
  SubSeq(s, b + 1, Smallest({n \in (b + 1)..(Len(s) + 1) : n = Len(s) + 1 \/ s[n] = "\n"}) - 1)
\* the lines of s that contain q when case is ignored
LinesContaining(s, q) ==
  {b \in Breaks(s) : Includes(ToLowerCase(LineAfter(s, b)), ToLowerCase(q))}
\* the first k of a set of lines
FirstLines(B, k) == {b \in B : Cardinality({c \in B : c < b}) < k}
RECURSIVE JoinedLines(_, _)
JoinedLines(s, B) ==
  IF B = {} THEN <<>>
  ELSE LET b == Smallest(B)
       IN  LineAfter(s, b)
           \o (IF B = {b} THEN <<>> ELSE <<"\n">> \o JoinedLines(s, B \ {b}))
\* the loaded document an entry was made from
DocOfEntry(entry) == docs[Smallest({i \in 1..Len(docs) : docs[i][2].id = entry.id})][2]

\* C14: the snippet of every entry Search(q) returns is the first min(3, n)
\* of the n lines of content.value that contain q case-insensitively, in
\* their order and joined by newlines; it is the placeholder
\* "<title> documentation" exactly when n = 0; it never has more than 3 lines.
C14_SnippetLines ==
  Returned("search") =>
    \A k \in 1..Len(resp.results) :
      LET entry == resp.results[k]
          D == DocOfEntry(entry)
          M == LinesContaining(D.content.value, resp.query)
      IN  /\ entry.snippet = IF M = {} THEN D.title \o DocumentationSuffix
                              ELSE JoinedLines(D.content.value, FirstLines(M, 3))
          /\ (M = {}) <=> (entry.snippet = D.title \o DocumentationSuffix)
          /\ Cardinality({n \in 1..Len(entry.snippet) : entry.snippet[n] = "\n"}) < 3

\* one response with an entry whose content has more than 3 matching lines
\* and an entry no line of whose content matches
C14_Witness ==
  /\ Returned("search")
  /\ \E k \in 1..Len(resp.results) :
       Cardinality(LinesContaining(DocOfEntry(resp.results[k]).content.value, resp.query)) > 3
  /\ \E k \in 1..Len(resp.results) :
       LinesContaining(DocOfEntry(resp.results[k]).content.value, resp.query) = {}

(* ---------------- C15 ---------------- *)
\* the places where the marker '### API' starts in a text
MarkerAt(c) ==
  {n \in 1..(Len(c) - Len(ApiMarker) + 1) :
     SubSeq(c, n, n + Len(ApiMarker) - 1) = ApiMarker}
\* the suffix from the first marker, the whole text when there is none
FromFirstMarker(c) ==
  IF MarkerAt(c) = {} THEN c ELSE SubSeq(c, Smallest(MarkerAt(c)), Len(c))
\* what the text of a hit holds in front of the content: the title line, the
\* category line and the tags line
HitHead(r) ==
  ApiHeading \o r.doc.title \o ApiReferenceLine \o r.category
    \o ApiTagsLine \o Join(r.doc.tags, <<",", " ">>) \o <<"\n", "\n">>

\* C15: on a hit the text of GetComponentAPI contains the title of the
\* document and ends with the suffix of content.value that starts at the
\* first marker "### API", with the whole content.value when there is no
\* marker; in front of that suffix stand only the title, category and tags
\* lines, so nothing of content.value before the first marker and nothing of
\* another document is in the output.
C15_ApiFromFirstMarker ==
  (Returned("api") /\ resp.found) =>
    LET expected == FromFirstMarker(resp.doc.content.value)
        n == Len(resp.text)
    IN  /\ Includes(resp.text, resp.doc.title)
        /\ n >= Len(expected)
        /\ SubSeq(resp.text, n - Len(expected) + 1, n) = expected
        /\ SubSeq(resp.text, 1, n - Len(expected)) = HitHead(resp)

\* a hit on a document whose content has text in front of the first of two
\* markers
C15_Witness ==
  /\ Returned("api")
  /\ resp.found
  /\ Cardinality(MarkerAt(resp.doc.content.value)) >= 2
  /\ 1 \notin MarkerAt(resp.doc.content.value)

(* ---------------- C16 ---------------- *)
\* the docPath of a locator primevue://<docPath>
DocPathOf(uri) == SubSeq(uri, Len(UriScheme) + 1, Len(uri))

\* C16: the locator of every entry Search returns resolves: reading the
\* resource primevue://<docPath> of the entry succeeds and returns the
\* content.value of the document the entry was made from.
C16_LocatorRoundTrip ==
  Returned("search") =>
    \A k \in 1..Len(resp.results) :
      LET entry == resp.results[k]
          read == ResourceResult(DocPathOf(entry.uri))
      IN  /\ SubSeq(entry.uri, 1, Len(UriScheme)) = UriScheme
          /\ read.status = "ok"
          /\ read.text = DocOfEntry(entry).content.value

(* ---------------- C17 ---------------- *)
\* the category shown for every document in the entries of Search
SearchShowsCategory ==
  Returned("search") =>
    \A k \in 1..Len(resp.results) :
      resp.results[k].category = Category(DocOfEntry(resp.results[k]))
\* the category shown in the text of a GetComponentAPI hit
HitShowsCategory ==
  (Returned("api") /\ resp.found) =>
    /\ resp.category = Category(resp.doc)
    /\ Includes(resp.text, ApiReferenceLine \o Category(resp.doc) \o ApiTagsLine)
\* the group every document stands in in the not-found listing
ListingShowsCategory ==
  (Returned("api") /\ ~resp.found) =>
    \A i \in 1..Len(docs) :
      \E g \in 1..Len(resp.listing) :
        /\ resp.listing[g].category = Category(docs[i][2])
        /\ Occurrences(resp.listing[g].components, docs[i][2].title) > 0
\* the group of every document ListCategories shows
ListShowsCategory ==
  Returned("list") =>
    \A g \in 1..Len(resp.groups) :
      \A n \in 1..Len(resp.groups[g].components) :
        \E i \in 1..Len(docs) :
          /\ docs[i][2].title = resp.groups[g].components[n]
          /\ Category(docs[i][2]) = resp.groups[g].category

\* C17: the category shown for a document is the same in every operation
\* that shows it: in its Search entry, in the GetComponentAPI hit output, in
\* the not-found listing and in ListCategories it is the first
\* '/'-separated segment of metadata.file, or "Unknown" when that segment
\* is empty.
C17_CategoryEverywhere ==
  /\ SearchShowsCategory
  /\ HitShowsCategory
  /\ ListingShowsCategory
  /\ ListShowsCategory

====
